---------------------------- MODULE Spec2Model ----------------------------
(***************************************************************************)
(* A model of the course notebooks of DS_CogNeuro: the order in which      *)
(* their code cells bind and read names and touch Epochs objects, and the  *)
(* array arithmetic of the cells (referencing, epoching, averaging,        *)
(* baselining, global field potential, standard error, regression).        *)
(*                                                                         *)
(* Numbers are exact rationals <<numerator, denominator>>; floating-point  *)
(* rounding of the arrays is not modelled.  Calls into mne, numpy and      *)
(* scikit-learn are modelled by what the called function does for the      *)
(* arguments the cell passes.                                              *)
(***************************************************************************)
EXTENDS Integers, Sequences, FiniteSets, TLC

VARIABLES
    kernel,     \* the running notebook: its name, position, namespace, Epochs objects
    ref,        \* part_000, referencing cells: raw, data, data_ref, avg_signal
    eog,        \* part_000, eyeblink epochs: sfreq, events, epochs, n_timepoints
    erp,        \* week4, ERP cells: epochs, epochs_button, evoked, data_av, data_global
    bl,         \* week4, baseline cell: epochs._data, epochs.times, the loop index
    se,         \* week4, standard_error cell: data, the returned value
    reg,        \* part_001, regression cells: a, b, a_scaled, b_scaled, reg.coef_, corr
    cc,         \* part_001, ECoG cells: data._data, the channel correlations, cc_mat
    vol,        \* part_002, fMRI cells: the image, voldata, mask, data, the Volume
    evt         \* week4, events cell: ev_df, events

vars == <<kernel, ref, eog, erp, bl, se, reg, cc, vol, evt>>

\* The value of a section's variable in the specifications that do not run it.
Off == [pc |-> "off"]

-----------------------------------------------------------------------------
(* Exact rational arithmetic: <<n, d>> with d > 0 and gcd(n, d) = 1.       *)

Abs(x) == IF x < 0 THEN -x ELSE x

RECURSIVE Gcd(_, _)
Gcd(x, y) == IF y = 0 THEN x ELSE Gcd(y, x % y)

Norm(n, d) ==
    LET g == Gcd(Abs(n), Abs(d))
        s == IF d < 0 THEN -1 ELSE 1
    IN  <<(s * n) \div g, (s * d) \div g>>

R(n) == <<n, 1>>
RAdd(p, q) == Norm(p[1] * q[2] + q[1] * p[2], p[2] * q[2])
RSub(p, q) == Norm(p[1] * q[2] - q[1] * p[2], p[2] * q[2])
RMul(p, q) == Norm(p[1] * q[1], p[2] * q[2])
RDiv(p, q) == Norm(p[1] * q[2], p[2] * q[1])
RLeq(p, q) == p[1] * q[2] <= q[1] * p[2]
RLt(p, q) == p[1] * q[2] < q[1] * p[2]

RECURSIVE RSum(_)
RSum(s) == IF s = <<>> THEN R(0) ELSE RAdd(s[1], RSum(Tail(s)))

\* numpy's mean of a 1-D array: the sum divided by the number of entries.
RMean(s) == RDiv(RSum(s), R(Len(s)))

(* Square roots, exact: a number q * sqrt(r) is [q |-> q, r |-> r] with q  *)
(* rational and r a square-free integer >= 1 (r = 1 when q = 0).           *)

\* The largest k with k * k dividing m, searched from k upwards.
RECURSIVE SquarePart(_, _, _)
SquarePart(m, k, best) ==
    IF k * k > m THEN best
    ELSE SquarePart(m, k + 1, IF m % (k * k) = 0 THEN k ELSE best)

Surd(q, m) ==
    IF q[1] = 0 \/ m = 0 THEN [q |-> R(0), r |-> 1]
    ELSE LET k == SquarePart(m, 1, 1)
         IN  [q |-> RMul(q, R(k)), r |-> m \div (k * k)]

SOfR(q) == Surd(q, 1)
\* np.sqrt of a rational q >= 0: sqrt(n / d) = sqrt(n * d) / d.
SSqrt(q) == Surd(Norm(1, q[2]), q[1] * q[2])
SMul(x, y) == Surd(RMul(x.q, y.q), x.r * y.r)
SDiv(x, y) == Surd(RDiv(x.q, RMul(y.q, R(y.r))), x.r * y.r)
\* The sum of two numbers with the same root (or one of them zero).
SAdd(x, y) ==
    IF x.q[1] = 0 THEN y
    ELSE IF y.q[1] = 0 THEN x
    ELSE Surd(RAdd(x.q, y.q), x.r)
SSub(x, y) == SAdd(x, Surd(RSub(R(0), y.q), y.r))

RECURSIVE SSum(_)
SSum(s) == IF s = <<>> THEN SOfR(R(0)) ELSE SAdd(s[1], SSum(Tail(s)))

-----------------------------------------------------------------------------
(* The notebooks as statement lists, in document order.  A statement is    *)
(* S(cell, line, reads, binds, op, obj): the code cell it is in, its line  *)
(* in the source file, the names it loads, the names it binds (import,     *)
(* assignment, for target, def), and what it does to an Epochs object.     *)
(* A compound statement is flattened: the for header (reads the iterable,  *)
(* binds the targets) and then its body; a def binds its name, and a call  *)
(* of it also reads the globals its body reads.                            *)

S(cell, line, reads, binds, op, obj) ==
    [cell |-> cell, line |-> line, reads |-> reads, binds |-> binds,
     op |-> op, obj |-> obj]

Part000 ==
    << S(1, 35, {}, {"mne"}, "none", ""),
       S(1, 36, {}, {"sys"}, "none", ""),
       S(1, 37, {}, {"nds"}, "none", ""),
       S(1, 38, {}, {"ds"}, "none", ""),
       S(1, 39, {}, {"plt"}, "none", ""),
       S(2, 52, {}, {"data_path"}, "none", ""),
       S(3, 73, {"data_path", "mne"}, {"raw"}, "none", ""),
       S(3, 74, {"print", "raw"}, {}, "none", ""),
       S(4, 86, {"raw"}, {"data"}, "none", ""),
       S(4, 87, {"data", "print"}, {}, "none", ""),
       S(5, 98, {"plt"}, {"ax", "fig"}, "none", ""),
       S(5, 99, {"ax", "data"}, {"_"}, "none", ""),
       S(6, 118, {}, {"ref_chan"}, "none", ""),
       S(6, 119, {"data", "ref_chan"}, {"data_ref"}, "none", ""),
       S(6, 120, {"plt"}, {"ax", "fig"}, "none", ""),
       S(6, 121, {"ax", "data_ref"}, {"_"}, "none", ""),
       S(6, 122, {"ax"}, {}, "none", ""),
       S(7, 152, {"data", "print"}, {}, "none", ""),
       S(8, 163, {"data"}, {"avg_signal"}, "none", ""),
       S(8, 164, {"plt"}, {"ax", "fig"}, "none", ""),
       S(8, 165, {"avg_signal", "ax"}, {}, "none", ""),
       S(8, 166, {"ax"}, {}, "none", ""),
       S(9, 178, {"avg_signal", "data"}, {"data"}, "none", ""),
       S(9, 179, {"plt"}, {"ax", "fig"}, "none", ""),
       S(9, 180, {"ax", "data"}, {"_"}, "none", ""),
       S(10, 207, {"data_path", "mne"}, {"raw"}, "none", ""),
       S(10, 208, {"mne", "raw"}, {}, "none", ""),
       S(10, 209, {"print", "raw"}, {}, "none", ""),
       S(11, 233, {"raw"}, {"_"}, "none", ""),
       S(12, 253, {"raw"}, {"_"}, "none", ""),
       S(13, 288, {"mne", "raw"}, {"epochs"}, "new_preloaded", "epochs"),
       S(13, 289, {"epochs"}, {}, "none", ""),
       S(14, 301, {"epochs"}, {}, "get_data", "epochs"),
       S(15, 328, {"epochs", "print"}, {}, "none", ""),
       S(16, 340, {"epochs"}, {}, "none", ""),
       S(17, 366, {"epochs", "print"}, {}, "none", ""),
       S(18, 378, {"dict", "epochs"}, {}, "none", ""),
       S(18, 379, {"epochs", "print"}, {}, "none", ""),
       S(19, 399, {"epochs"}, {}, "_data", "epochs"),
       S(20, 412, {"epochs"}, {}, "_data", "epochs"),
       S(21, 424, {"epochs", "print"}, {}, "none", ""),
       S(21, 425, {"epochs"}, {}, "none", ""),
       S(22, 439, {}, {"n_seconds"}, "none", ""),
       S(22, 440, {"epochs", "n_seconds"}, {"n_timepoints"}, "none", ""),
       S(22, 441, {"epochs", "n_timepoints", "print"}, {}, "_data", "epochs"),
       S(23, 460, {"epochs"}, {"_"}, "none", ""),
       S(24, 494, {"epochs"}, {"_"}, "none", ""),
       S(25, 533, {"epochs", "print"}, {}, "_data", "epochs"),
       S(26, 545, {"epochs"}, {"mean_epoch"}, "_data", "epochs"),
       S(26, 546, {"mean_epoch", "print"}, {}, "none", ""),
       S(27, 558, {"plt"}, {"ax", "fig"}, "none", ""),
       S(27, 559, {"ax", "epochs", "mean_epoch"}, {}, "none", ""),
       S(27, 560, {"ax"}, {}, "none", ""),
       S(28, 572, {"mean_epoch", "print"}, {}, "none", ""),
       S(28, 573, {"mean_epoch"}, {"mean_epoch"}, "none", ""),
       S(28, 574, {"mean_epoch", "print"}, {}, "none", ""),
       S(28, 577, {"ds", "epochs", "mean_epoch"}, {"mean_epoch"}, "none", ""),
       S(28, 579, {"mean_epoch"}, {}, "none", ""),
       S(28, 580, {"plt"}, {}, "none", ""),
       S(29, 599, {"epochs"}, {"average"}, "none", ""),
       S(29, 600, {"average"}, {"_"}, "none", ""),
       S(30, 621, {"average"}, {"_"}, "none", ""),
       S(31, 639, {"average"}, {"_"}, "none", ""),
       S(32, 666, {"average"}, {"_"}, "none", "") >>

Part001 ==
    << S(1, 30, {}, {"mne"}, "none", ""),
       S(1, 31, {}, {"np"}, "none", ""),
       S(1, 32, {}, {"plt"}, "none", ""),
       S(1, 33, {}, {"ds"}, "none", ""),
       S(1, 34, {}, {"nds"}, "none", ""),
       S(2, 63, {}, {"noise_amp"}, "none", ""),
       S(2, 64, {}, {"n_pts"}, "none", ""),
       S(2, 65, {"n_pts", "np"}, {"a"}, "none", ""),
       S(2, 68, {}, {"weight"}, "none", ""),
       S(2, 71, {"n_pts", "noise_amp", "np"}, {"noise"}, "none", ""),
       S(2, 74, {"a", "noise", "weight"}, {"b"}, "none", ""),
       S(3, 89, {"plt"}, {"ax", "f"}, "none", ""),
       S(3, 90, {"a", "ax"}, {}, "none", ""),
       S(3, 91, {"ax", "b"}, {}, "none", ""),
       S(3, 92, {"plt"}, {}, "none", ""),
       S(3, 93, {"plt"}, {}, "none", ""),
       S(4, 123, {"plt"}, {"ax", "f"}, "none", ""),
       S(4, 124, {"a", "ax", "b"}, {}, "none", ""),
       S(4, 125, {"ax"}, {}, "none", ""),
       S(4, 126, {"ax"}, {}, "none", ""),
       S(5, 154, {"a", "b", "np"}, {"corr"}, "none", ""),
       S(5, 155, {"corr", "print"}, {}, "none", ""),
       S(5, 156, {"print"}, {}, "none", ""),
       S(5, 159, {"corr", "print"}, {}, "none", ""),
       S(6, 246, {}, {"LinearRegression"}, "none", ""),
       S(7, 257, {}, {"noise_amp"}, "none", ""),
       S(7, 258, {}, {"n_pts"}, "none", ""),
       S(7, 259, {"n_pts", "np"}, {"a"}, "none", ""),
       S(7, 262, {}, {"weight"}, "none", ""),
       S(7, 265, {"n_pts", "noise_amp", "np"}, {"noise"}, "none", ""),
       S(7, 268, {"a", "noise", "weight"}, {"b"}, "none", ""),
       S(8, 284, {"a", "np"}, {"a"}, "none", ""),
       S(8, 285, {"b", "np"}, {"b"}, "none", ""),
       S(8, 289, {"LinearRegression"}, {"reg"}, "none", ""),
       S(8, 290, {"a", "b", "reg"}, {}, "none", ""),
       S(9, 314, {"reg"}, {}, "none", ""),
       S(10, 337, {"a", "np"}, {"test_vals"}, "none", ""),
       S(10, 338, {"reg", "test_vals"}, {"b_preds"}, "none", ""),
       S(10, 339, {"plt"}, {"ax", "f"}, "none", ""),
       S(10, 340, {"a", "ax", "b"}, {}, "none", ""),
       S(10, 341, {"ax", "b_preds", "test_vals"}, {}, "none", ""),
       S(10, 342, {"ax"}, {}, "none", ""),
       S(10, 343, {"ax"}, {}, "none", ""),
       S(11, 365, {"np", "reg", "test_vals"}, {"b_preds"}, "none", ""),
       S(11, 367, {"plt"}, {"ax", "f"}, "none", ""),
       S(11, 368, {"a", "ax", "b"}, {}, "none", ""),
       S(11, 369, {"ax", "b_preds", "test_vals"}, {}, "none", ""),
       S(12, 390, {"plt"}, {"ax", "fig"}, "none", ""),
       S(12, 393, {"a", "ax", "b"}, {}, "none", ""),
       S(12, 394, {"ax", "b_preds", "test_vals"}, {}, "none", ""),
       S(12, 397, {"a", "b", "zip"}, {"a_actual", "b_actual"}, "none", ""),
       S(12, 399, {"a_actual", "np", "test_vals"}, {"ix_a_pred"}, "none", ""),
       S(12, 402, {"b_preds", "ix_a_pred"}, {"closest_predicted_b"}, "none", ""),
       S(12, 404, {"a_actual", "ax", "b_actual", "closest_predicted_b"}, {}, "none", ""),
       S(13, 428, {"a", "np"}, {"a_scaled"}, "none", ""),
       S(13, 429, {"b", "np"}, {"b_scaled"}, "none", ""),
       S(13, 432, {}, {"scale"}, "none", ""),
       S(13, 433, {"a", "scale"}, {"a_scaled"}, "none", ""),
       S(13, 434, {"b", "scale"}, {"b_scaled"}, "none", ""),
       S(13, 436, {"a", "plt"}, {}, "none", ""),
       S(13, 437, {"a_scaled", "plt"}, {}, "none", ""),
       S(13, 438, {"plt"}, {}, "none", ""),
       S(13, 439, {"plt"}, {}, "none", ""),
       S(14, 454, {"a_scaled", "b_scaled", "reg"}, {}, "none", ""),
       S(14, 455, {"reg"}, {"coef_scaled"}, "none", ""),
       S(14, 458, {"coef_scaled", "print"}, {}, "none", ""),
       S(14, 459, {"corr", "print"}, {}, "none", ""),
       S(15, 497, {}, {"path_ecog"}, "none", ""),
       S(15, 498, {"mne", "path_ecog"}, {"data"}, "none", ""),
       S(15, 501, {"ds", "path_ecog"}, {"melec"}, "none", ""),
       S(15, 502, {"melec", "np"}, {"melec"}, "none", ""),
       S(15, 503, {"mne", "path_ecog"}, {"lt"}, "none", ""),
       S(15, 504, {"path_ecog", "plt"}, {"im"}, "none", ""),
       S(15, 507, {"data"}, {}, "none", ""),
       S(16, 533, {"data"}, {"_"}, "none", ""),
       S(17, 555, {"data"}, {"ch_a"}, "none", ""),
       S(17, 556, {"data"}, {"ch_b"}, "none", ""),
       S(17, 557, {"ch_a", "ch_b", "np"}, {}, "none", ""),
       S(18, 572, {"data"}, {"ch_c"}, "none", ""),
       S(18, 573, {"ch_a", "ch_c", "np"}, {}, "none", ""),
       S(19, 595, {"data", "np"}, {"activity"}, "none", ""),
       S(19, 596, {"activity"}, {}, "none", ""),
       S(19, 597, {"activity", "im", "melec", "nds"}, {}, "none", ""),
       S(20, 622, {"data", "np"}, {"cc_mat"}, "none", ""),
       S(20, 623, {"cc_mat", "print"}, {}, "none", ""),
       S(21, 644, {"plt"}, {"ax", "f"}, "none", ""),
       S(21, 645, {"ax", "cc_mat", "plt"}, {}, "none", ""),
       S(22, 672, {"fig"}, {}, "none", ""),
       S(23, 689, {}, {"ix_seed"}, "none", ""),
       S(23, 690, {"cc_mat", "ix_seed"}, {"cc_elec"}, "none", ""),
       S(23, 693, {"cc_elec", "im", "melec", "nds"}, {"ax"}, "none", ""),
       S(24, 718, {"ds", "path_ecog"}, {"time"}, "none", ""),
       S(25, 733, {"data", "time"}, {"ix_onsets"}, "none", ""),
       S(25, 734, {"int", "ix_onsets", "np"}, {"ix_onsets"}, "none", ""),
       S(25, 735, {"np", "time"}, {"ix_types"}, "none", ""),
       S(25, 736, {"ix_onsets", "ix_types", "np"}, {"events"}, "none", ""),
       S(26, 751, {"data", "events", "mne"}, {"epochs"}, "new_preloaded", "epochs"),
       S(26, 752, {"epochs"}, {"av"}, "none", ""),
       S(26, 753, {"av"}, {"_"}, "none", ""),
       S(27, 775, {"epochs"}, {"squared_ep"}, "_data", "epochs"),
       S(27, 776, {"squared_ep"}, {"gfp_ep"}, "none", ""),
       S(27, 779, {"gfp_ep", "np"}, {"gfp"}, "none", ""),
       S(27, 780, {"np", "squared_ep"}, {"squared_raw"}, "none", ""),
       S(28, 797, {"scale", "squared_raw"}, {"X"}, "none", ""),
       S(29, 823, {"LinearRegression"}, {"mod"}, "none", ""),
       S(29, 824, {"X", "gfp", "mod", "np"}, {}, "none", ""),
       S(30, 846, {"mod"}, {"coefs_raw"}, "none", ""),
       S(30, 847, {"coefs_raw"}, {}, "none", ""),
       S(31, 862, {"coefs_raw", "data", "ds"}, {"tab"}, "none", ""),
       S(31, 864, {"tab"}, {}, "none", ""),
       S(32, 885, {"im", "melec", "mod", "nds"}, {}, "none", ""),
       S(33, 908, {"av", "im", "lt"}, {"fig"}, "none", "") >>

Part002 ==
    << S(1, 94, {}, {"os"}, "none", ""),
       S(1, 95, {}, {"nibabel"}, "none", ""),
       S(1, 96, {}, {"cortex"}, "none", ""),
       S(1, 98, {}, {"np"}, "none", ""),
       S(1, 99, {}, {"zscore"}, "none", ""),
       S(1, 100, {}, {"plt"}, "none", ""),
       S(1, 103, {"plt"}, {}, "none", ""),
       S(1, 104, {"plt"}, {}, "none", ""),
       S(1, 105, {"plt"}, {}, "none", ""),
       S(2, 126, {}, {"fname"}, "none", ""),
       S(2, 127, {"fname", "nibabel"}, {"nii"}, "none", ""),
       S(2, 128, {"nii"}, {"voldata"}, "none", ""),
       S(2, 130, {}, {"mask_fname"}, "none", ""),
       S(2, 131, {"mask_fname", "np"}, {"mask"}, "none", ""),
       S(2, 132, {"mask", "voldata"}, {"data"}, "none", ""),
       S(2, 133, {"data", "zscore"}, {"data"}, "none", ""),
       S(3, 157, {"voldata"}, {"first_volume"}, "none", ""),
       S(3, 158, {"first_volume", "print"}, {}, "none", ""),
       S(3, 159, {"data", "print"}, {}, "none", ""),
       S(4, 192, {}, {"subject"}, "none", ""),
       S(4, 194, {}, {"transform"}, "none", ""),
       S(5, 224, {"cortex", "first_volume", "subject", "transform"}, {"data_volume"}, "none", ""),
       S(5, 225, {"data_volume", "print"}, {}, "none", ""),
       S(6, 248, {"cortex", "data_volume"}, {}, "none", ""),
       S(8, 289, {"cortex", "data_volume"}, {"_"}, "none", ""),
       S(9, 311, {"cortex", "subject", "transform"}, {"mask"}, "none", ""),
       S(9, 312, {"mask", "voldata"}, {"first_volume_masked"}, "none", ""),
       S(9, 313, {"mask", "print"}, {}, "none", ""),
       S(9, 314, {"first_volume_masked", "print"}, {}, "none", ""),
       S(10, 336, {"data", "print"}, {}, "none", ""),
       S(10, 337, {"dict"}, {"kwargs"}, "none", ""),
       S(10, 338, {"cortex", "data", "kwargs", "mask", "subject", "transform"}, {"vol"}, "none", ""),
       S(10, 339, {"print", "vol"}, {}, "none", ""),
       S(10, 340, {"print", "vol"}, {}, "none", ""),
       S(13, 385, {"cortex", "data", "mask", "subject", "transform"}, {"data_movie"}, "none", ""),
       S(14, 400, {"cortex", "data_movie"}, {}, "none", "") >>

Week4 ==
    << S(1, 32, {}, {"mne"}, "none", ""),
       S(1, 33, {}, {"ds"}, "none", ""),
       S(1, 34, {}, {"np"}, "none", ""),
       S(1, 35, {}, {"plt"}, "none", ""),
       S(1, 36, {}, {"nds"}, "none", ""),
       S(2, 49, {}, {"path_raw_data"}, "none", ""),
       S(2, 50, {"mne", "path_raw_data"}, {"raw"}, "none", ""),
       S(2, 53, {}, {"path_events"}, "none", ""),
       S(2, 54, {"ds", "path_events"}, {"ev_df"}, "none", ""),
       S(2, 57, {}, {"path_event_info"}, "none", ""),
       S(2, 58, {"ds", "path_event_info"}, {"ev_info"}, "none", ""),
       S(3, 70, {"ev_df"}, {}, "none", ""),
       S(4, 82, {"ev_info"}, {}, "none", ""),
       S(5, 94, {"ev_df", "print"}, {}, "none", ""),
       S(6, 107, {"ev_df"}, {"events"}, "none", ""),
       S(7, 118, {"ev_df", "print"}, {}, "none", ""),
       S(7, 119, {"print"}, {}, "none", ""),
       S(7, 121, {"events", "print"}, {}, "none", ""),
       S(8, 133, {"dict"}, {"ev_id"}, "none", ""),
       S(8, 134, {"ev_info"}, {"i_desc", "i_id", "i_name"}, "none", ""),
       S(8, 135, {"ev_id", "i_id", "i_name", "int"}, {}, "none", ""),
       S(9, 146, {"ev_id", "print"}, {}, "none", ""),
       S(10, 158, {"ev_id", "events", "mne", "raw"}, {"epochs"}, "new_lazy", "epochs"),
       S(11, 176, {"epochs"}, {}, "none", ""),
       S(12, 187, {"epochs", "print"}, {}, "get_data", "epochs"),
       S(12, 188, {"epochs"}, {"n_timepoints"}, "get_data", "epochs"),
       S(13, 201, {"epochs"}, {"_"}, "none", ""),
       S(14, 241, {"epochs"}, {}, "none", ""),
       S(15, 254, {"epochs"}, {}, "none", ""),
       S(16, 273, {"epochs"}, {"epochs_button"}, "copy", "epochs_button"),
       S(17, 295, {"epochs_button"}, {"_"}, "none", ""),
       S(18, 306, {"epochs_button"}, {"epoch_data"}, "get_data", "epochs_button"),
       S(18, 307, {"epoch_data"}, {}, "none", ""),
       S(19, 326, {"epochs_button"}, {"evoked"}, "none", ""),
       S(19, 327, {"evoked"}, {"_"}, "none", ""),
       S(20, 350, {"evoked"}, {"_"}, "none", ""),
       S(21, 383, {"epochs_button", "print"}, {}, "none", ""),
       S(22, 405, {"mne"}, {}, "none", ""),
       S(23, 417, {"epochs"}, {}, "load_data", "epochs"),
       S(24, 430, {}, {"baselines"}, "none", ""),
       S(24, 431, {"baselines"}, {"baseline"}, "none", ""),
       S(24, 433, {"baseline", "epochs", "mne"}, {"_"}, "_data", "epochs"),
       S(24, 434, {"epochs"}, {"av"}, "none", ""),
       S(24, 435, {"av"}, {"fig"}, "none", ""),
       S(24, 436, {"baseline", "fig"}, {}, "none", ""),
       S(24, 437, {"fig"}, {}, "none", ""),
       S(25, 460, {"epochs_button"}, {"data"}, "get_data", "epochs_button"),
       S(25, 461, {"data", "print"}, {}, "none", ""),
       S(26, 473, {"data", "np"}, {"data_av"}, "none", ""),
       S(26, 476, {"data_av", "np"}, {"data_global"}, "none", ""),
       S(27, 487, {"data_global", "type"}, {}, "none", ""),
       S(28, 500, {"plt"}, {"ax", "fig"}, "none", ""),
       S(28, 501, {"ax", "data_global", "epochs"}, {}, "none", ""),
       S(29, 529, {"data_av", "np"}, {"data_global"}, "none", ""),
       S(29, 530, {"plt"}, {"ax", "fig"}, "none", ""),
       S(29, 531, {"ax", "data_global", "epochs"}, {}, "none", ""),
       S(30, 566, {"np"}, {"sig_a"}, "none", ""),
       S(30, 567, {"np"}, {"sig_b"}, "none", ""),
       S(30, 568, {"plt"}, {"ax", "fig"}, "none", ""),
       S(30, 569, {"ax", "sig_a"}, {}, "none", ""),
       S(30, 570, {"ax", "sig_b"}, {}, "none", ""),
       S(30, 572, {"print", "sig_a"}, {}, "none", ""),
       S(30, 573, {"print", "sig_b"}, {}, "none", ""),
       S(31, 585, {"plt"}, {"ax", "fig"}, "none", ""),
       S(31, 586, {"ax", "sig_a", "sig_b"}, {}, "none", ""),
       S(31, 587, {"ax"}, {}, "none", ""),
       S(31, 588, {"ax"}, {}, "none", ""),
       S(31, 589, {"ax"}, {}, "none", ""),
       S(32, 613, {}, {"standard_error"}, "none", ""),
       S(33, 625, {"plt"}, {"ax", "fig"}, "none", ""),
       S(33, 626, {"enumerate", "sig_a", "sig_b"}, {"ii", "sig"}, "none", ""),
       S(33, 627, {"ax", "ii", "sig"}, {}, "none", ""),
       S(33, 628, {"ax", "ii", "np", "sig", "standard_error"}, {}, "none", ""),
       S(33, 631, {"ax"}, {}, "none", ""),
       S(33, 632, {"ax"}, {}, "none", ""),
       S(33, 633, {"ax"}, {}, "none", ""),
       S(33, 634, {"ax"}, {}, "none", ""),
       S(34, 656, {"data_av", "print"}, {}, "none", ""),
       S(35, 668, {"data_av", "nds"}, {"data_global_ste"}, "none", ""),
       S(35, 669, {"data_global_ste", "print"}, {}, "none", ""),
       S(36, 688, {"plt"}, {"ax", "fig"}, "none", ""),
       S(36, 689, {"ax", "data_global", "data_global_ste", "epochs"}, {}, "none", ""),
       S(36, 691, {"ax"}, {}, "none", "") >>

Notebooks ==
    [Part000 |-> Part000, Part001 |-> Part001, Part002 |-> Part002, Week4 |-> Week4]

NotebookNames == {"Part000", "Part001", "Part002", "Week4"}

\* Names a fresh Python kernel already holds, among those the cells read.
Builtins == {"print", "dict", "int", "zip", "enumerate", "type"}

\* The Epochs object an indexing expression epochs['button'] copies.
CopiedFrom(obj) == IF obj = "epochs_button" THEN "epochs" ELSE obj

\* Binding after a statement: the kernel's namespace persists across cells.
Bind_FreshNamespace(bound, s) == Builtins \cup s.binds
Bind(bound, s) == bound \cup s.binds

\* epochs.load_data(): the object holds its data from now on.
LoadData_Forgotten(preloaded, obj) == preloaded
LoadData(preloaded, obj) == preloaded \cup {obj}

\* The set of Epochs objects that hold their data (`preload`), after s.
\*   mne.preprocessing.create_eog_epochs(raw, ch) and
\*   mne.Epochs(..., preload=True) build a loaded object;
\*   mne.Epochs(raw, events, event_id=ev_id) (preload=False) a lazy one;
\*   epochs['button'] copies the object with its state;
\*   get_data() and reading _data change nothing.
Preloaded(preloaded, s) ==
    CASE s.op = "new_preloaded" -> preloaded \cup {s.obj}
      [] s.op = "new_lazy"      -> preloaded \ {s.obj}
      [] s.op = "copy"          ->
             IF CopiedFrom(s.obj) \in preloaded
             THEN preloaded \cup {s.obj} ELSE preloaded \ {s.obj}
      [] s.op = "load_data"     -> LoadData(preloaded, s.obj)
      [] OTHER                  -> preloaded

\* What a statement gets from the object: get_data() returns the array,
\* loading it from the raw file if needed; `_data` is the array only of a
\* loaded object, and None otherwise.
Result(preloaded, s) ==
    CASE s.op = "get_data" -> "array"
      [] s.op = "_data"    -> IF s.obj \in preloaded THEN "array" ELSE "None"
      [] OTHER             -> "none"

\* The first statement of the cell after the cell of statement i.
RECURSIVE NextCell(_, _)
NextCell(nb, i) ==
    IF i < Len(nb) /\ nb[i + 1].cell = nb[i].cell THEN NextCell(nb, i + 1) ELSE i + 1

InitKernel ==
    /\ kernel \in [pc : {"run"}, nb : NotebookNames, i : {1}, bound : {Builtins},
                   preloaded : {{}}, got : {{}}, errors : {{}}]
    /\ ref = Off /\ eog = Off /\ erp = Off /\ bl = Off /\ se = Off /\ reg = Off
    /\ cc = Off /\ vol = Off /\ evt = Off

\* Run the next statement.  A read of an unbound name raises NameError: the
\* rest of the cell is skipped and the next cell runs.
ExecStatement ==
    /\ kernel.pc = "run"
    /\ kernel.i <= Len(Notebooks[kernel.nb])
    /\ LET nb == Notebooks[kernel.nb]
           s  == nb[kernel.i]
       IN  kernel' =
             IF s.reads \subseteq kernel.bound
             THEN [kernel EXCEPT
                     !.i = @ + 1,
                     !.bound = Bind(@, s),
                     !.preloaded = Preloaded(@, s),
                     !.got = IF s.op \in {"get_data", "_data"}
                             THEN @ \cup {[line |-> s.line, op |-> s.op, obj |-> s.obj,
                                          loaded |-> s.obj \in kernel.preloaded,
                                          result |-> Result(kernel.preloaded, s)]}
                             ELSE @]
             ELSE [kernel EXCEPT
                     !.i = NextCell(nb, kernel.i),
                     !.errors = @ \cup {s.line}]
    /\ UNCHANGED <<ref, eog, erp, bl, se, reg, cc, vol, evt>>

NextKernel == ExecStatement

SpecKernel == InitKernel /\ [][NextKernel]_vars

\* Statement `line` of notebook `name` has run.
Executed(name, line) ==
    /\ kernel.pc = "run"
    /\ kernel.nb = name
    /\ \E j \in 1..(kernel.i - 1) : Notebooks[name][j].line = line

\* C1: run in document order from a fresh kernel, every name a cell reads
\* has been bound by an import or an assignment earlier in that cell or in
\* an earlier cell: no statement raises NameError, and the statement about
\* to run finds all the names it reads.
C1_NamesBoundBeforeRead ==
    kernel.pc = "run" =>
        /\ kernel.errors = {}
        /\ kernel.i <= Len(Notebooks[kernel.nb]) =>
               Notebooks[kernel.nb][kernel.i].reads \subseteq kernel.bound

\* The bare `fig` cell of part_001 (line 672) has run, reading the figure
\* bound in the error-lines cell (line 390).
C1_Witness ==
    /\ Executed("Part001", 672)
    /\ kernel.errors = {}
    /\ "fig" \in kernel.bound

\* C9: `_data` of an Epochs object is read only while the object is loaded,
\* and always yields the array; get_data() yields the array whether or not
\* the object is loaded; the week-4 `epochs` is lazy from its construction
\* (line 158) until load_data() (line 417).
C9_DataOnlyWhenLoaded ==
    kernel.pc = "run" =>
        /\ \A g \in kernel.got :
              /\ g.result = "array"
              /\ g.op = "_data" => g.loaded
        /\ (Executed("Week4", 158) /\ ~Executed("Week4", 417)) =>
               "epochs" \notin kernel.preloaded

\* Week 4: get_data() was called on the lazy object, and after load_data()
\* the baseline cell read epochs._data.
C9_Witness ==
    /\ Executed("Week4", 433)
    /\ \E g \in kernel.got : g.op = "get_data" /\ ~g.loaded /\ g.result = "array"
    /\ \E g \in kernel.got : g.op = "_data" /\ g.line = 433 /\ g.loaded

-----------------------------------------------------------------------------
(* part_000, "A quick aside on referencing": arrays are channels x times,  *)
(* a sequence of rows, one row per channel.                                *)

NChan == 3
NTimes == 2
\* raw._data[:5, :1000] keeps the first channels and the first samples.
SelChan == NChan - 1
SelTimes == NTimes - 1

Values == {-1, 2}

Arrays(nc, nt) == [1..nc -> [1..nt -> {R(v) : v \in Values}]]

\* m[:nc, :nt]
Slice(m, nc, nt) == [c \in 1..nc |-> [t \in 1..nt |-> m[c][t]]]

\* m.mean(axis=0): for each timepoint, the mean across the rows (channels).
MeanAxis0(m) ==
    [t \in 1..Len(m[1]) |-> RMean([c \in 1..Len(m) |-> m[c][t]])]

\* m - row, broadcast: the row is subtracted from every channel.
SubRow_Added(m, row) ==
    [c \in 1..Len(m) |-> [t \in 1..Len(m[c]) |-> RAdd(m[c][t], row[t])]]
SubRow(m, row) ==
    [c \in 1..Len(m) |-> [t \in 1..Len(m[c]) |-> RSub(m[c][t], row[t])]]

\* mne.set_eeg_reference(inst, copy): the mean across channels at each time
\* point is subtracted from each channel, of a copy of inst when copy is
\* True and of inst itself (in place) when it is False; the re-referenced
\* object is returned.
SetEegReference(inst, copy) ==
    LET out == SubRow(inst, MeanAxis0(inst))
    IN  [inst |-> IF copy THEN inst ELSE out, returned |-> out]

Unbound == <<>>

\* raw = mne.io.Raw(data_path, preload=True)                       (line 73)
InitRef ==
    /\ \E f \in Arrays(NChan, NTimes) :
          ref = [pc |-> "slice", file |-> f, raw |-> f, data |-> Unbound,
                 data_ref |-> Unbound, avg_signal |-> Unbound]
    /\ kernel = Off /\ eog = Off /\ erp = Off /\ bl = Off /\ se = Off /\ reg = Off
    /\ cc = Off /\ vol = Off /\ evt = Off

\* data = raw._data[:5, :1000]                                     (line 86)
SliceData ==
    /\ ref.pc = "slice"
    /\ ref' = [ref EXCEPT !.pc = "first_channel",
                          !.data = Slice(ref.raw, SelChan, SelTimes)]
    /\ UNCHANGED <<kernel, eog, erp, bl, se, reg, cc, vol, evt>>

\* ref_chan = 0; data_ref = data - data[ref_chan]             (lines 118-119)
ReferenceToFirstChannel ==
    /\ ref.pc = "first_channel"
    /\ ref' = [ref EXCEPT !.pc = "avg", !.data_ref = SubRow(ref.data, ref.data[1])]
    /\ UNCHANGED <<kernel, eog, erp, bl, se, reg, cc, vol, evt>>

\* avg_signal = data.mean(axis=0)                                 (line 163)
AverageSignal ==
    /\ ref.pc = "avg"
    /\ ref' = [ref EXCEPT !.pc = "car", !.avg_signal = MeanAxis0(ref.data)]
    /\ UNCHANGED <<kernel, eog, erp, bl, se, reg, cc, vol, evt>>

\* data = data - avg_signal: a new array; raw._data is not written (line 178)
RemoveAverage ==
    /\ ref.pc = "car"
    /\ ref' = [ref EXCEPT !.pc = "reload", !.data = SubRow(ref.data, ref.avg_signal)]
    /\ UNCHANGED <<kernel, eog, erp, bl, se, reg, cc, vol, evt>>

\* raw = mne.io.Raw(data_path, preload=True)                      (line 207)
ReloadRaw ==
    /\ ref.pc = "reload"
    /\ ref' = [ref EXCEPT !.pc = "set_reference", !.raw = ref.file]
    /\ UNCHANGED <<kernel, eog, erp, bl, se, reg, cc, vol, evt>>

\* mne.set_eeg_reference(raw, copy=True): the returned object is dropped
\*                                                                (line 208)
SetReference ==
    /\ ref.pc = "set_reference"
    /\ ref' = [ref EXCEPT !.pc = "plot", !.raw = SetEegReference(ref.raw, TRUE).inst]
    /\ UNCHANGED <<kernel, eog, erp, bl, se, reg, cc, vol, evt>>

\* _ = raw.plot()                                                 (line 233)
PlotRaw ==
    /\ ref.pc = "plot"
    /\ ref' = [ref EXCEPT !.pc = "create_eog_epochs"]
    /\ UNCHANGED <<kernel, eog, erp, bl, se, reg, cc, vol, evt>>

\* epochs = mne.preprocessing.create_eog_epochs(raw, 'EEG 003')   (line 288)
ReadRawForEpochs ==
    /\ ref.pc = "create_eog_epochs"
    /\ ref' = [ref EXCEPT !.pc = "done"]
    /\ UNCHANGED <<kernel, eog, erp, bl, se, reg, cc, vol, evt>>

NextRef ==
    \/ SliceData
    \/ ReferenceToFirstChannel
    \/ AverageSignal
    \/ RemoveAverage
    \/ ReloadRaw
    \/ SetReference
    \/ PlotRaw
    \/ ReadRawForEpochs

SpecRef == InitRef /\ [][NextRef]_vars

\* The sum over the channels of m at time t.
ColumnSum(m, t) == RSum([c \in 1..Len(m) |-> m[c][t]])

\* C2 (as claimed): once the set_eeg_reference cell has run, `raw`, which
\* raw.plot and create_eog_epochs read, is common-average referenced: each
\* value is the file's value minus the mean across all channels at that
\* time, so the channels sum to zero at every timepoint.
C2_RawIsAverageReferenced ==
    ref.pc \in {"plot", "create_eog_epochs", "done"} =>
        \A t \in 1..NTimes :
            /\ ColumnSum(ref.raw, t) = R(0)
            /\ \A c \in 1..NChan :
                  RMul(R(NChan), ref.raw[c][t]) =
                      RSub(RMul(R(NChan), ref.file[c][t]), ColumnSum(ref.file, t))

\* C3: after data = data - avg_signal, every value is the old value of
\* its channel minus the mean of the old values of all channels of `data`
\* at that time, and the channels of `data` sum (so average) to zero at
\* every timepoint.
C3_ManualAverageReference ==
    ref.pc \in {"reload", "set_reference", "plot", "create_eog_epochs", "done"} =>
        LET old == Slice(ref.file, SelChan, SelTimes)
        IN  \A t \in 1..SelTimes :
               /\ ColumnSum(ref.data, t) = R(0)
               /\ \A c \in 1..SelChan :
                     RMul(R(SelChan), ref.data[c][t]) =
                         RSub(RMul(R(SelChan), old[c][t]), ColumnSum(old, t))

\* The manual step has run on data whose channels differ and whose average
\* is not zero, so the step changed the data.
C3_Witness ==
    /\ ref.pc = "reload"
    /\ ref.avg_signal[1] # R(0)
    /\ ref.data # Slice(ref.file, SelChan, SelTimes)
    /\ ref.data[1][1] # ref.data[2][1]

-----------------------------------------------------------------------------
(* part_000, eyeblink epochs: create_eog_epochs cuts a window around each  *)
(* detected eyeblink.                                                      *)

MaxSfreq == 5       \* sampling frequencies 2..MaxSfreq samples per second
RawLen == 8         \* samples in the recording
MaxEvents == 2      \* eyeblinks detected

\* n_seconds = 1.                                                 (line 439)
n_seconds == 1

\* create_eog_epochs' window around the event: tmin = -0.5 s, tmax = 0.5 s.
tmin == <<-1, 2>>
tmax == <<1, 2>>
\* The id create_eog_epochs gives its events.
EogEventId == 998

Floor(q) == q[1] \div q[2]

\* Python's round(): to the nearest integer, a half to the even neighbour.
Round(q) ==
    LET f    == Floor(q)
        twice == RSub(RMul(R(2), q), R(2 * f))      \* 2 * (q - f), in [0, 2)
    IN  IF RLt(twice, R(1)) THEN f
        ELSE IF RLt(R(1), twice) THEN f + 1
        ELSE IF f % 2 = 0 THEN f ELSE f + 1

\* mne.Epochs: the window of an epoch, in samples relative to the event,
\* runs from round(tmin * sfreq) to round(tmax * sfreq), both included.
WindowStart(sfreq) == Round(RMul(tmin, R(sfreq)))
WindowStop(sfreq) == Round(RMul(tmax, R(sfreq)))

\* epochs.times: the window's samples in seconds.
EpochTimes(sfreq) ==
    [k \in 1..(WindowStop(sfreq) - WindowStart(sfreq) + 1) |->
        Norm(WindowStart(sfreq) + k - 1, sfreq)]

\* The samples of the recording in the window of the event at `sample`.
EpochSamples(sfreq, sample) ==
    [k \in 1..(WindowStop(sfreq) - WindowStart(sfreq) + 1) |->
        sample + WindowStart(sfreq) + k - 1]

\* An epoch whose window leaves the recording is dropped.
InRecording(sfreq, sample) ==
    /\ sample + WindowStart(sfreq) >= 1
    /\ sample + WindowStop(sfreq) <= RawLen

RECURSIVE KeptEvents(_, _, _)
KeptEvents(s, sfreq, i) ==
    IF i > Len(s) THEN <<>>
    ELSE IF InRecording(sfreq, s[i][1])
         THEN <<s[i]>> \o KeptEvents(s, sfreq, i + 1)
         ELSE KeptEvents(s, sfreq, i + 1)

\* The increasing sequence of the elements of a set of integers.
RECURSIVE SortedSeq(_)
SortedSeq(set) ==
    IF set = {} THEN <<>>
    ELSE LET m == CHOOSE x \in set : \A y \in set : x <= y
         IN  <<m>> \o SortedSeq(set \ {m})

\* mne.preprocessing.create_eog_epochs(raw, 'EEG 003'): the events found,
\* one row <<sample, 0, 998>> each, and the loaded Epochs object built on
\* them: its events (those whose window is in the recording), its times and
\* its data (here, per epoch, the samples of the recording it holds).
CreateEogEpochs_EventsKept(sfreq, blinks) ==
    LET found == [i \in 1..Len(blinks) |-> <<blinks[i], 0, EogEventId>>]
        kept  == KeptEvents(found, sfreq, 1)
    IN  [events |-> found,
         event_id |-> {<<"998", EogEventId>>},
         times |-> EpochTimes(sfreq),
         data |-> [i \in 1..Len(kept) |-> EpochSamples(sfreq, kept[i][1])],
         n_times |-> WindowStop(sfreq) - WindowStart(sfreq) + 1]
CreateEogEpochs(sfreq, blinks) ==
    LET found == [i \in 1..Len(blinks) |-> <<blinks[i], 0, EogEventId>>]
        kept  == KeptEvents(found, sfreq, 1)
    IN  [events |-> kept,
         event_id |-> {<<"998", EogEventId>>},
         times |-> EpochTimes(sfreq),
         data |-> [i \in 1..Len(kept) |-> EpochSamples(sfreq, kept[i][1])],
         n_times |-> WindowStop(sfreq) - WindowStart(sfreq) + 1]

InitEog ==
    /\ \E f \in 2..MaxSfreq, b \in SUBSET (1..RawLen) :
          /\ Cardinality(b) <= MaxEvents
          /\ eog = [pc |-> "create_eog_epochs", sfreq |-> f, blinks |-> SortedSeq(b),
                    epochs |-> Unbound, n_timepoints |-> Unbound]
    /\ kernel = Off /\ ref = Off /\ erp = Off /\ bl = Off /\ se = Off /\ reg = Off
    /\ cc = Off /\ vol = Off /\ evt = Off

\* epochs = mne.preprocessing.create_eog_epochs(raw, 'EEG 003')   (line 288)
DetectEyeblinks ==
    /\ eog.pc = "create_eog_epochs"
    /\ eog' = [eog EXCEPT !.pc = "event_id",
                          !.epochs = CreateEogEpochs(eog.sfreq, eog.blinks)]
    /\ UNCHANGED <<kernel, ref, erp, bl, se, reg, cc, vol, evt>>

\* epochs.event_id = dict(eyeblink=998)                           (line 378)
RenameEventId ==
    /\ eog.pc = "event_id"
    /\ eog' = [eog EXCEPT !.pc = "n_timepoints",
                          !.epochs.event_id = {<<"eyeblink", 998>>}]
    /\ UNCHANGED <<kernel, ref, erp, bl, se, reg, cc, vol, evt>>

\* n_timepoints = n_seconds * epochs.info['sfreq']           (lines 439-441)
ComputeTimepoints ==
    /\ eog.pc = "n_timepoints"
    /\ eog' = [eog EXCEPT !.pc = "done",
                          !.n_timepoints = RMul(R(n_seconds), R(eog.sfreq))]
    /\ UNCHANGED <<kernel, ref, erp, bl, se, reg, cc, vol, evt>>

NextEog ==
    \/ DetectEyeblinks
    \/ RenameEventId
    \/ ComputeTimepoints

SpecEog == InitEog /\ [][NextEog]_vars

\* C4 (as claimed): the number of timepoints of each eyeblink epoch
\* (epochs._data.shape[-1], equal to len(epochs.times)) equals
\* n_seconds * sfreq, and every epoch has this same number of timepoints.
C4_TimepointsAreSecondsTimesSfreq ==
    (eog.pc = "done" /\ Len(eog.epochs.data) > 0) =>
        /\ R(eog.epochs.n_times) = eog.n_timepoints
        /\ Len(eog.epochs.times) = eog.epochs.n_times
        /\ \A i \in 1..Len(eog.epochs.data) :
              Len(eog.epochs.data[i]) = eog.epochs.n_times


\* C16: once the event id has been renamed, every row of epochs.events has
\* 998 in its third column, which is a value of epochs.event_id, and
\* epochs.events has one row per epoch of epochs._data.
C16_EventsMatchEpochs ==
    eog.pc \in {"n_timepoints", "done"} =>
        /\ \A i \in 1..Len(eog.epochs.events) :
              /\ Len(eog.epochs.events[i]) = 3
              /\ eog.epochs.events[i][3] = 998
              /\ \E kv \in eog.epochs.event_id : kv[2] = eog.epochs.events[i][3]
        /\ eog.epochs.event_id = {<<"eyeblink", 998>>}
        /\ Len(eog.epochs.events) = Len(eog.epochs.data)

\* Two eyeblinks were detected; one is too close to an end of the recording
\* for a whole window and has been dropped, events row and epoch alike.
C16_Witness ==
    /\ eog.pc = "done"
    /\ Len(eog.blinks) = 2
    /\ Len(eog.epochs.events) = 1
    /\ Len(eog.epochs.data) = 1

-----------------------------------------------------------------------------
(* week4, "Event-Related Potentials" and "Global Field Potential".  An     *)
(* epoch is [id, data]: the id of its event (third column of `events`) and *)
(* the channels x times array get_data() yields for it.                    *)

ErpEpochs == 3      \* events in the recording

\* ev_id, built from the rows of ev_info: name -> id.               (133-135)
ev_id == [button |-> 32, visual |-> 3]
EventIds == {ev_id.button, ev_id.visual}

ErpChannels == {1, 2}
ErpTimes == {1, 2}

\* The arrays an epoch may hold.
ErpArrays ==
    {[c \in ErpChannels |-> [t \in ErpTimes |-> R(IF c = 1 THEN p * t ELSE q - t)]] :
        p \in {-1, 2}, q \in {0, 3}}

\* epochs[name]: the epochs whose event id is ev_id[name], in order.
Select_All(eps, name) == eps
RECURSIVE Select(_, _)
Select(eps, name) ==
    IF eps = <<>> THEN <<>>
    ELSE IF Head(eps).id = ev_id[name]
         THEN <<Head(eps)>> \o Select(Tail(eps), name)
         ELSE Select(Tail(eps), name)

\* epochs.get_data(): the array (n_events, n_channels, n_timepoints).
GetData(eps) == [e \in 1..Len(eps) |-> eps[e].data]

\* np.mean(d, 0) of a 3-D array, and Epochs.average(): for each channel and
\* time, the mean over the first axis (the epochs).
MeanOverEpochs(d) ==
    [c \in 1..Len(d[1]) |-> [t \in 1..Len(d[1][c]) |->
        RMean([e \in 1..Len(d) |-> d[e][c][t]])]]

\* m ** 2, elementwise.
Squared_Omitted(m) == m
Squared(m) == [c \in 1..Len(m) |-> [t \in 1..Len(m[c]) |-> RMul(m[c][t], m[c][t])]]

InitErp ==
    /\ \E eps \in [1..ErpEpochs -> [id : EventIds, data : ErpArrays]] :
          erp = [pc |-> "select", epochs |-> eps, times |-> [t \in ErpTimes |-> t],
                 epochs_button |-> Unbound, epoch_data |-> Unbound,
                 evoked |-> Unbound, data |-> Unbound, data_av |-> Unbound,
                 data_global |-> Unbound]
    /\ kernel = Off /\ ref = Off /\ eog = Off /\ bl = Off /\ se = Off /\ reg = Off
    /\ cc = Off /\ vol = Off /\ evt = Off

\* epochs_button = epochs['button']                                (line 273)
SelectButton ==
    /\ erp.pc = "select"
    /\ erp' = [erp EXCEPT !.pc = "get_data",
                          !.epochs_button = Select(erp.epochs, "button")]
    /\ UNCHANGED <<kernel, ref, eog, bl, se, reg, cc, vol, evt>>

\* epoch_data = epochs_button.get_data()                           (line 306)
GetEpochData ==
    /\ erp.pc = "get_data"
    /\ erp' = [erp EXCEPT !.pc = "average", !.epoch_data = GetData(erp.epochs_button)]
    /\ UNCHANGED <<kernel, ref, eog, bl, se, reg, cc, vol, evt>>

\* evoked = epochs_button.average(); with no button epoch there is nothing
\* to average and the cell stops.                                  (line 326)
AverageButton ==
    /\ erp.pc = "average"
    /\ erp' = IF Len(erp.epochs_button) > 0
              THEN [erp EXCEPT !.pc = "data",
                               !.evoked = MeanOverEpochs(GetData(erp.epochs_button))]
              ELSE [erp EXCEPT !.pc = "error"]
    /\ UNCHANGED <<kernel, ref, eog, bl, se, reg, cc, vol, evt>>

\* data = epochs_button.get_data()                                 (line 460)
GetButtonData ==
    /\ erp.pc = "data"
    /\ erp' = [erp EXCEPT !.pc = "data_av", !.data = GetData(erp.epochs_button)]
    /\ UNCHANGED <<kernel, ref, eog, bl, se, reg, cc, vol, evt>>

\* data_av = np.mean(data, 0); data_global = np.mean(data_av, 0) (473-476)
AverageTrialsThenChannels ==
    /\ erp.pc = "data_av"
    /\ erp' = [erp EXCEPT !.pc = "gfp",
                          !.data_av = MeanOverEpochs(erp.data),
                          !.data_global = MeanAxis0(MeanOverEpochs(erp.data))]
    /\ UNCHANGED <<kernel, ref, eog, bl, se, reg, cc, vol, evt>>

\* data_global = np.mean(data_av ** 2, 0)                          (line 529)
GlobalField ==
    /\ erp.pc = "gfp"
    /\ erp' = [erp EXCEPT !.pc = "done",
                          !.data_global = MeanAxis0(Squared(erp.data_av))]
    /\ UNCHANGED <<kernel, ref, eog, bl, se, reg, cc, vol, evt>>

NextErp ==
    \/ SelectButton
    \/ GetEpochData
    \/ AverageButton
    \/ GetButtonData
    \/ AverageTrialsThenChannels
    \/ GlobalField

SpecErp == InitErp /\ [][NextErp]_vars

\* The sum of f over a finite set of indices.
RECURSIVE SumOver(_, _)
SumOver(f, set) ==
    IF set = {} THEN R(0)
    ELSE LET i == CHOOSE x \in set : TRUE
         IN  RAdd(f[i], SumOver(f, set \ {i}))

\* The epochs of the recording whose event is a button press.
ButtonEpochs == {i \in 1..ErpEpochs : erp.epochs[i].id = ev_id.button}

\* C5: epochs_button holds all and only the epochs whose event id is
\* ev_id['button'], and evoked is, for every channel and time, the
\* arithmetic mean over exactly those epochs.
C5_ErpIsButtonAverage ==
    erp.pc \in {"data", "data_av", "gfp", "done"} =>
        /\ Len(erp.epochs_button) = Cardinality(ButtonEpochs)
        /\ \A j \in 1..Len(erp.epochs_button) : erp.epochs_button[j].id = ev_id.button
        /\ \A i \in ButtonEpochs :
              \E j \in 1..Len(erp.epochs_button) : erp.epochs_button[j] = erp.epochs[i]
        /\ \A c \in ErpChannels, t \in ErpTimes :
              RMul(R(Cardinality(ButtonEpochs)), erp.evoked[c][t]) =
                  SumOver([i \in 1..ErpEpochs |-> erp.epochs[i].data[c][t]], ButtonEpochs)

\* Two button epochs that differ were averaged, and an epoch of another
\* type, which would have changed the average, was left out.
C5_Witness ==
    /\ erp.pc = "data"
    /\ Cardinality(ButtonEpochs) = 2
    /\ erp.epochs_button[1].data # erp.epochs_button[2].data
    /\ \E i \in 1..ErpEpochs :
          /\ i \notin ButtonEpochs
          /\ erp.epochs[i].data[1][1] # erp.evoked[1][1]

\* C6: data_global = np.mean(data_av ** 2, 0) has one value per entry of
\* epochs.times; the value at t is the mean over the channels of the
\* squared trial average of the channel at t, and it is never negative.
C6_GlobalFieldPotential ==
    erp.pc = "done" =>
        /\ Len(erp.data_global) = Len(erp.times)
        /\ \A t \in ErpTimes :
              /\ RLeq(R(0), erp.data_global[t])
              /\ RMul(R(Cardinality(ErpChannels)), erp.data_global[t]) =
                    SumOver([c \in ErpChannels |->
                                RMul(erp.evoked[c][t], erp.evoked[c][t])], ErpChannels)
        /\ \A c \in ErpChannels, t \in ErpTimes :
              RMul(R(Len(erp.data)), erp.data_av[c][t]) =
                  SumOver([e \in 1..Len(erp.data) |-> erp.data[e][c][t]],
                          1..Len(erp.data))

\* The field is positive at a time where the channels' averages have
\* opposite signs (their plain mean would cancel or be negative).
C6_Witness ==
    /\ erp.pc = "done"
    /\ \E t \in ErpTimes :
          /\ RLt(erp.data_av[1][t], R(0))
          /\ RLt(R(0), erp.data_av[2][t])
          /\ RLt(R(0), erp.data_global[t])

-----------------------------------------------------------------------------
(* week4, "Baselining with Events": the loop re-baselines epochs._data in  *)
(* place, once per entry of `baselines`.                                   *)

BlSfreq == 10       \* samples per second of the recording
BlEpochs == 2       \* epochs in epochs._data

BlChannels == {1}
BlValues == {-1, 2}

\* mne.Epochs' default window: tmin = -0.2 s, tmax = 0.5 s.
EpochsTmin == <<-1, 5>>
EpochsTmax == <<1, 2>>

\* epochs.times: the samples from round(tmin * sfreq) to round(tmax * sfreq),
\* in seconds.
BlTimes ==
    LET start == Round(RMul(EpochsTmin, R(BlSfreq)))
        stop  == Round(RMul(EpochsTmax, R(BlSfreq)))
    IN  [k \in 1..(stop - start + 1) |-> Norm(start + k - 1, BlSfreq)]

\* baselines = [(-.5, 0), (0, .05), (.05, .1), (.1, .15)]          (line 430)
baselines ==
    << <<Norm(-1, 2), R(0)>>, <<R(0), Norm(1, 20)>>,
       <<Norm(1, 20), Norm(1, 10)>>, <<Norm(1, 10), Norm(3, 20)>> >>

\* The signals an epoch and channel may hold: steps at 0 s and at 0.1 s.
BlSegment(t) ==
    IF RLt(t, R(0)) THEN 1
    ELSE IF t = R(0) THEN 2
    ELSE IF RLeq(t, Norm(1, 10)) THEN 3
    ELSE 4
BlRows ==
    {[k \in DOMAIN BlTimes |-> R(v[BlSegment(BlTimes[k])])] : v \in [1..4 -> BlValues]}

\* mne.baseline.rescale's window, as indices of `times`: from the first
\* time >= bmin to the last time <= bmax.
FirstAtOrAfter(times, bmin) ==
    IF \E k \in DOMAIN times : RLeq(bmin, times[k])
    THEN CHOOSE k \in DOMAIN times :
            /\ RLeq(bmin, times[k])
            /\ \A j \in DOMAIN times : RLeq(bmin, times[j]) => k <= j
    ELSE 0
LastAtOrBefore_Exclusive(times, bmax) ==
    IF \E k \in DOMAIN times : RLt(times[k], bmax)
    THEN CHOOSE k \in DOMAIN times :
            /\ RLt(times[k], bmax)
            /\ \A j \in DOMAIN times : RLt(times[j], bmax) => j <= k
    ELSE 0
LastAtOrBefore(times, bmax) ==
    IF \E k \in DOMAIN times : RLeq(times[k], bmax)
    THEN CHOOSE k \in DOMAIN times :
            /\ RLeq(times[k], bmax)
            /\ \A j \in DOMAIN times : RLeq(times[j], bmax) => j <= k
    ELSE 0

\* mne.baseline.rescale(data, times, baseline, copy=False), mode 'mean':
\* for every epoch and channel, the mean of the values in the window is
\* subtracted from all its values, in place.  An empty window raises
\* ValueError and leaves the data as it is.
Rescale(data, times, baseline) ==
    LET imin == FirstAtOrAfter(times, baseline[1])
        imax == LastAtOrBefore(times, baseline[2])
    IN  IF imin = 0 \/ imax = 0 \/ imin > imax
        THEN [ok |-> FALSE, data |-> data]
        ELSE [ok |-> TRUE,
              data |-> [e \in DOMAIN data |-> [c \in DOMAIN data[e] |->
                  LET row  == data[e][c]
                      mean == RMean([k \in 1..(imax - imin + 1) |-> row[imin + k - 1]])
                  IN  [k \in DOMAIN row |-> RSub(row[k], mean)]]]]

\* epochs.load_data() has run (line 417): epochs._data holds every epoch.
InitBl ==
    /\ \E d \in [1..BlEpochs -> [BlChannels -> BlRows]] :
          bl = [pc |-> "loop", i |-> 0, data |-> d, before |-> d, times |-> BlTimes,
                av |-> Unbound]
    /\ kernel = Off /\ ref = Off /\ eog = Off /\ erp = Off /\ se = Off /\ reg = Off
    /\ cc = Off /\ vol = Off /\ evt = Off

\* for baseline in baselines:
\*     _ = mne.baseline.rescale(epochs._data, epochs.times, baseline, copy=False)
\*     av = epochs.average()                                  (lines 431-434)
\* `before` keeps the data as it was when the iteration began.
RescaleEpochs ==
    /\ bl.pc = "loop"
    /\ bl.i < Len(baselines)
    /\ LET r == Rescale(bl.data, bl.times, baselines[bl.i + 1])
       IN  bl' = IF r.ok
                 THEN [bl EXCEPT !.i = @ + 1, !.before = bl.data, !.data = r.data,
                                 !.av = MeanOverEpochs(r.data)]
                 ELSE [bl EXCEPT !.pc = "ValueError"]
    /\ UNCHANGED <<kernel, ref, eog, erp, se, reg, cc, vol, evt>>

\* The loop is over.
EndBaselines ==
    /\ bl.pc = "loop"
    /\ bl.i = Len(baselines)
    /\ bl' = [bl EXCEPT !.pc = "done"]
    /\ UNCHANGED <<kernel, ref, eog, erp, se, reg, cc, vol, evt>>

NextBl ==
    \/ RescaleEpochs
    \/ EndBaselines

SpecBl == InitBl /\ [][NextBl]_vars

\* C8: after rescale with the window (a, b), for every epoch and channel
\* the values at the times t with a <= t <= b sum (so average) to zero, and
\* every value has been lowered by the same amount, the mean the signal
\* had over that window.
C8_BaselineMeanIsZero ==
    (bl.pc \in {"loop", "done", "ValueError"} /\ bl.i >= 1) =>
        LET b == baselines[bl.i]
            w == {k \in DOMAIN bl.times : RLeq(b[1], bl.times[k]) /\ RLeq(bl.times[k], b[2])}
        IN  /\ w # {}
            /\ \A e \in 1..BlEpochs, c \in BlChannels :
                  /\ SumOver(bl.data[e][c], w) = R(0)
                  /\ \A k \in DOMAIN bl.times :
                        RMul(R(Cardinality(w)),
                             RSub(bl.before[e][c][k], bl.data[e][c][k])) =
                            SumOver(bl.before[e][c], w)

\* The first baseline, (-0.5, 0), has been removed from a signal that is
\* not flat over that window, the two epochs being shifted by different
\* amounts.
C8_Witness ==
    /\ bl.pc = "loop"
    /\ bl.i = 1
    /\ bl.data[1][1][1] # bl.data[1][1][3]
    /\ bl.before[1][1][1] # bl.data[1][1][1]
    /\ RSub(bl.before[1][1][1], bl.data[1][1][1]) #
           RSub(bl.before[2][1][1], bl.data[2][1][1])

-----------------------------------------------------------------------------
(* week4, "Calculating / Visualizing variability": standard_error(data).   *)
(* An array is [ndim, a]: a is a sequence of numbers (ndim = 1) or a       *)
(* sequence of rows (ndim = 2).                                            *)

SeMaxLen == 3       \* entries of a 1-D signal
SeMaxRows == 2      \* rows (channels) of a 2-D array
SeMaxCols == 2      \* columns (timepoints) of a 2-D array

SeValues == {-1, 0, 2}

SeArrays ==
    {[ndim |-> 1, a |-> s] :
        s \in UNION {[1..n -> {R(v) : v \in SeValues}] : n \in 1..SeMaxLen}}
    \cup
    {[ndim |-> 2, a |-> m] :
        m \in UNION {[1..r -> [1..c -> {R(v) : v \in SeValues}]] :
                        r \in 1..SeMaxRows, c \in 1..SeMaxCols}}

\* All the values of the array, row after row.
RECURSIVE Concat(_)
Concat(rows) == IF rows = <<>> THEN <<>> ELSE Head(rows) \o Concat(Tail(rows))
Flatten(arr) == IF arr.ndim = 1 THEN arr.a ELSE Concat(arr.a)

\* data.shape[0]
Shape0(arr) == Len(arr.a)

\* The variance np.std takes the root of: the mean squared distance of the
\* values from their mean (no axis: over all the values of the array).
Variance(s) ==
    LET m == RMean(s)
    IN  RMean([i \in 1..Len(s) |-> RMul(RSub(s[i], m), RSub(s[i], m))])

\* np.std(x) of a sequence of values.
Std(s) == SSqrt(Variance(s))

\* def standard_error(data):
\*     return np.std(data) / np.sqrt(data.shape[0])            (lines 613-614)
standard_error(data) == SDiv(Std(Flatten(data)), SSqrt(R(Shape0(data))))

InitSe ==
    /\ \E d \in SeArrays : se = [pc |-> "call", data |-> d, sterr |-> Unbound]
    /\ kernel = Off /\ ref = Off /\ eog = Off /\ erp = Off /\ bl = Off /\ reg = Off
    /\ cc = Off /\ vol = Off /\ evt = Off

\* standard_error(sig)                                       (lines 629-630)
CallStandardError ==
    /\ se.pc = "call"
    /\ se' = [se EXCEPT !.pc = "done", !.sterr = standard_error(se.data)]
    /\ UNCHANGED <<kernel, ref, eog, erp, bl, reg, cc, vol, evt>>

NextSe == CallStandardError

SpecSe == InitSe /\ [][NextSe]_vars

\* C7 (as claimed): for every array, 1-D or 2-D, standard_error returns
\* sigma / sqrt(N), sigma the standard deviation of the samples and N the
\* number of those same samples.
C7_StandardErrorOfAllSamples ==
    se.pc = "done" =>
        LET samples == Flatten(se.data)
        IN  se.sterr = SDiv(SSqrt(Variance(samples)), SSqrt(R(Len(samples))))

-----------------------------------------------------------------------------
(* part_001, "Correlation via simulation" to "standard units": two signals *)
(* are simulated, correlated, simulated again, regressed, scaled and       *)
(* regressed again.                                                        *)

n_pts == 3          \* points per simulated signal (50 in the notebook)

\* weight = 2 in the notebook, which invites changing it.
Weights == {1, 2, 3}
\* a = 10 * np.random.random(n_pts): any values, not all equal.
ASignals == {s \in [1..n_pts -> {0, 1}] : \E i, j \in 1..n_pts : s[i] # s[j]}
\* noise = noise_amp * np.random.randn(n_pts): none, alternating, one spike.
Noises ==
    {[i \in 1..n_pts |-> 0],
     [i \in 1..n_pts |-> IF i % 2 = 1 THEN 1 ELSE -1],
     [i \in 1..n_pts |-> IF i = 1 THEN 1 ELSE 0]}

\* b = weight * a + noise                                     (lines 74, 268)
MixSignals_Unweighted(a, noise, weight) ==
    [i \in 1..Len(a) |-> R(a[i] + noise[i])]
MixSignals(a, noise, weight) ==
    [i \in 1..Len(a) |-> R(weight * a[i] + noise[i])]

\* The simulations whose b is not constant either (std(b) > 0).
Simulations ==
    {sim \in [a : ASignals, noise : Noises, weight : Weights] :
        LET b == MixSignals(sim.a, sim.noise, sim.weight)
        IN  \E i, j \in 1..n_pts : b[i] # b[j]}

\* np.cov's entry for two signals: the mean product of their deviations,
\* over n - 1.
Cov(x, y) ==
    LET mx == RMean(x)
        my == RMean(y)
    IN  RDiv(RSum([i \in 1..Len(x) |-> RMul(RSub(x[i], mx), RSub(y[i], my))]),
             R(Len(x) - 1))

\* np.corrcoef of the rows of a matrix: the covariance matrix of the rows,
\* each entry divided by the standard deviations of its row's and its
\* column's signal.
CorrMatrix_Covariance(sig) ==
    [i \in 1..Len(sig) |-> [j \in 1..Len(sig) |-> SOfR(Cov(sig[i], sig[j]))]]
CorrMatrix(sig) ==
    [i \in 1..Len(sig) |-> [j \in 1..Len(sig) |->
        SDiv(SDiv(SOfR(Cov(sig[i], sig[j])), SSqrt(Cov(sig[i], sig[i]))),
             SSqrt(Cov(sig[j], sig[j])))]]

\* np.corrcoef(x, y): the two signals are stacked as the rows of a matrix.
CorrCoef(x, y) == CorrMatrix(<<x, y>>)

\* (x - np.mean(x)) / np.std(x), and sklearn's scale(x): standard units.
Scale_NotCentred(x) == [i \in 1..Len(x) |-> SDiv(SOfR(x[i]), Std(x))]
Scale(x) ==
    LET m == RMean(x)
    IN  [i \in 1..Len(x) |-> SDiv(SOfR(RSub(x[i], m)), Std(x))]

\* LinearRegression(fit_intercept=False).fit(x, y).coef_ for one feature:
\* the w that minimises sum (y - w x)^2, which is sum(x y) / sum(x x).
LeastSquares(x, y) ==
    SDiv(SSum([i \in 1..Len(x) |-> SMul(x[i], y[i])]),
         SSum([i \in 1..Len(x) |-> SMul(x[i], x[i])]))

AsSurds(x) == [i \in 1..Len(x) |-> SOfR(x[i])]

\* The first simulation: a, weight, noise, b                    (lines 63-74)
InitReg ==
    /\ \E sim \in Simulations :
          reg = [pc |-> "corrcoef",
                 a |-> [i \in 1..n_pts |-> R(sim.a[i])], weight |-> sim.weight,
                 noise |-> sim.noise, b |-> MixSignals(sim.a, sim.noise, sim.weight),
                 corr |-> Unbound, coef |-> Unbound, a_scaled |-> Unbound,
                 b_scaled |-> Unbound, coef_scaled |-> Unbound]
    /\ kernel = Off /\ ref = Off /\ eog = Off /\ erp = Off /\ bl = Off /\ se = Off
    /\ cc = Off /\ vol = Off /\ evt = Off

\* corr = np.corrcoef(a, b)                                      (line 154)
Correlate ==
    /\ reg.pc = "corrcoef"
    /\ reg' = [reg EXCEPT !.pc = "simulate", !.corr = CorrCoef(reg.a, reg.b)]
    /\ UNCHANGED <<kernel, ref, eog, erp, bl, se, cc, vol, evt>>

\* "We'll simulate more random data": a, weight, noise and b are drawn
\* again; corr keeps its value.                             (lines 257-268)
SimulateAgain ==
    /\ reg.pc = "simulate"
    /\ \E sim \in Simulations :
          reg' = [reg EXCEPT !.pc = "fit",
                             !.a = [i \in 1..n_pts |-> R(sim.a[i])],
                             !.weight = sim.weight, !.noise = sim.noise,
                             !.b = MixSignals(sim.a, sim.noise, sim.weight)]
    /\ UNCHANGED <<kernel, ref, eog, erp, bl, se, cc, vol, evt>>

\* reg = LinearRegression(fit_intercept=False); reg.fit(a, b) (lines 284-290)
FitRegression ==
    /\ reg.pc = "fit"
    /\ reg' = [reg EXCEPT !.pc = "scale",
                          !.coef = LeastSquares(AsSurds(reg.a), AsSurds(reg.b))]
    /\ UNCHANGED <<kernel, ref, eog, erp, bl, se, cc, vol, evt>>

\* a_scaled = scale(a); b_scaled = scale(b)                  (lines 428-434)
ScaleSignals ==
    /\ reg.pc = "scale"
    /\ reg' = [reg EXCEPT !.pc = "fit_scaled",
                          !.a_scaled = Scale(reg.a), !.b_scaled = Scale(reg.b)]
    /\ UNCHANGED <<kernel, ref, eog, erp, bl, se, cc, vol, evt>>

\* reg.fit(a_scaled, b_scaled); coef_scaled = reg.coef_[0, 0] (lines 454-455)
FitScaled ==
    /\ reg.pc = "fit_scaled"
    /\ reg' = [reg EXCEPT !.pc = "done",
                          !.coef = LeastSquares(reg.a_scaled, reg.b_scaled),
                          !.coef_scaled = LeastSquares(reg.a_scaled, reg.b_scaled)]
    /\ UNCHANGED <<kernel, ref, eog, erp, bl, se, cc, vol, evt>>

NextReg ==
    \/ Correlate
    \/ SimulateAgain
    \/ FitRegression
    \/ ScaleSignals
    \/ FitScaled

SpecReg == InitReg /\ [][NextReg]_vars

\* Pearson's r of two signals: the sum of the products of their deviations
\* over the root of the product of their sums of squared deviations.
Pearson(x, y) ==
    LET mx == RMean(x)
        my == RMean(y)
        dx == [i \in 1..Len(x) |-> RSub(x[i], mx)]
        dy == [i \in 1..Len(y) |-> RSub(y[i], my)]
        sxy == RSum([i \in 1..Len(x) |-> RMul(dx[i], dy[i])])
        sxx == RSum([i \in 1..Len(x) |-> RMul(dx[i], dx[i])])
        syy == RSum([i \in 1..Len(x) |-> RMul(dy[i], dy[i])])
    IN  SDiv(SOfR(sxy), SSqrt(RMul(sxx, syy)))

\* x is in standard units: mean 0 and variance 1.
StandardUnits(x) ==
    /\ SSum(x) = SOfR(R(0))
    /\ SSum([i \in 1..Len(x) |-> SMul(x[i], x[i])]) = SOfR(R(Len(x)))

\* C10: a_scaled and b_scaled are a and b in standard units, and the
\* coefficient of the regression without intercept of b_scaled on a_scaled
\* is Pearson's correlation coefficient of a and b.
C10_ScaledCoefficientIsCorrelation ==
    reg.pc = "done" =>
        /\ StandardUnits(reg.a_scaled)
        /\ StandardUnits(reg.b_scaled)
        /\ reg.coef_scaled = Pearson(reg.a, reg.b)

\* A case with noise: the correlation is neither 0 nor +-1, it differs
\* from the coefficient of the unscaled regression, and from the `corr`
\* printed beside it, which is that of the first simulation.
C10_Witness ==
    /\ reg.pc = "done"
    /\ reg.coef_scaled \notin {SOfR(R(-1)), SOfR(R(0)), SOfR(R(1))}
    /\ reg.coef_scaled # LeastSquares(AsSurds(reg.a), AsSurds(reg.b))
    /\ reg.coef_scaled # reg.corr[2][1]

-----------------------------------------------------------------------------
(* "Correlation vs. Regression" (part_001, lines 168-181): what the        *)
(* correlation and the regression coefficient say about the weight.        *)

NoNoise == [i \in 1..n_pts |-> 0]

\* sum(a * noise) / sum(a * a): what the noise adds to the fitted weight.
NoiseSlope(a, noise) ==
    RDiv(RSum([i \in 1..Len(a) |-> RMul(a[i], R(noise[i]))]),
         RSum([i \in 1..Len(a) |-> RMul(a[i], a[i])]))

-----------------------------------------------------------------------------
(* part_001, "Linear relationships between channels": correlations between *)
(* pairs of ECoG channels, then the correlation matrix of all channels.     *)

CcChannels == 3     \* channels of the recording
CcTimes == {1, 2, 3}
CcValues == {0, 1}

\* A channel's signal: its samples are not all equal.
CcSignals ==
    {s \in [CcTimes -> CcValues] : \E t, u \in CcTimes : s[t] # s[u]}

\* data = mne.io.Raw(path_ecog + 'ecog_resamp-raw.fif', preload=True) (line 498)
InitCc ==
    /\ \E d \in [1..CcChannels -> CcSignals] :
          cc = [pc |-> "neighbours",
                data |-> [c \in 1..CcChannels |-> [t \in CcTimes |-> R(d[c][t])]],
                ch_a |-> Unbound, ch_b |-> Unbound, ch_c |-> Unbound,
                out |-> Unbound, cc_mat |-> Unbound]
    /\ kernel = Off /\ ref = Off /\ eog = Off /\ erp = Off /\ bl = Off /\ se = Off
    /\ reg = Off /\ vol = Off /\ evt = Off

\* ch_a = data._data[10]; ch_b = data._data[11];
\* np.corrcoef(ch_a, ch_b)[1, 0]: here the first two channels (lines 555-557)
CorrelateNeighbours ==
    /\ cc.pc = "neighbours"
    /\ cc' = [cc EXCEPT !.pc = "distant", !.ch_a = cc.data[1], !.ch_b = cc.data[2],
                        !.out = CorrCoef(cc.data[1], cc.data[2])[2][1]]
    /\ UNCHANGED <<kernel, ref, eog, erp, bl, se, reg, vol, evt>>

\* ch_c = data._data[60]; np.corrcoef(ch_a, ch_c)[1, 0]: here the last
\* channel                                                    (lines 572-573)
CorrelateDistant ==
    /\ cc.pc = "distant"
    /\ cc' = [cc EXCEPT !.pc = "matrix", !.ch_c = cc.data[CcChannels],
                        !.out = CorrCoef(cc.ch_a, cc.data[CcChannels])[2][1]]
    /\ UNCHANGED <<kernel, ref, eog, erp, bl, se, reg, vol, evt>>

\* cc_mat = np.corrcoef(data._data)                                (line 622)
CorrelationMatrix ==
    /\ cc.pc = "matrix"
    /\ cc' = [cc EXCEPT !.pc = "done", !.cc_mat = CorrMatrix(cc.data)]
    /\ UNCHANGED <<kernel, ref, eog, erp, bl, se, reg, vol, evt>>

NextCc ==
    \/ CorrelateNeighbours
    \/ CorrelateDistant
    \/ CorrelationMatrix

SpecCc == InitCc /\ [][NextCc]_vars

-----------------------------------------------------------------------------
(* part_002: the fMRI run is loaded, transposed, masked into a matrix and  *)
(* z-scored; rows of the matrix are put back into volumes by pycortex.     *)
(* Array indices start at 1 here and at 0 in the notebook.                 *)

VolTimes == 3       \* volumes (timepoints) of the run (120 in the notebook)
MaskVoxels == 3     \* voxels inside the masks tried, besides the full mask

\* The image grid: 3 x 2 x 2 voxels (100 x 100 x 30 in the notebook).
VolX == 1..3
VolY == 1..2
VolZ == 1..2
NVoxels == Cardinality(VolX) * Cardinality(VolY) * Cardinality(VolZ)

\* The voxels of a (Z, Y, X) array in the order numpy visits them: the last
\* index runs fastest.
VoxelAt(k) ==
    <<((k - 1) \div (Cardinality(VolY) * Cardinality(VolX))) + 1,
      (((k - 1) \div Cardinality(VolX)) % Cardinality(VolY)) + 1,
      ((k - 1) % Cardinality(VolX)) + 1>>
VoxelOrder == [k \in 1..NVoxels |-> VoxelAt(k)]

\* The images tried, indexed [x][y][z][t] as nibabel stores them: every
\* voxel has its own timecourse, none of them flat.
ImageOffsets == {0, 1}
Image(offset) ==
    [x \in VolX |-> [y \in VolY |-> [z \in VolZ |-> [t \in 1..VolTimes |->
        LET c == CHOOSE k \in 1..NVoxels : VoxelAt(k) = <<z, y, x>>
        IN  R(IF t = (c % VolTimes) + 1 THEN c + 1 + offset
              ELSE IF t = ((c + 1) % VolTimes) + 1 THEN 1 ELSE 0)]]]]

\* The masks tried, indexed [z][y][x]: the full grid, and every mask of one
\* to MaskVoxels voxels.
Masks ==
    {[z \in VolZ |-> [y \in VolY |-> [x \in VolX |-> <<z, y, x>> \in s]]] :
        s \in {s \in SUBSET (VolZ \X VolY \X VolX) :
                  /\ s # {}
                  /\ Cardinality(s) <= MaskVoxels \/ Cardinality(s) = NVoxels}}

\* arr.T of a 4-D array: the axes in reverse order.
Transpose_TimeFirst(arr) ==
    [t \in 1..Len(arr[1][1][1]) |-> [x \in 1..Len(arr) |->
        [y \in 1..Len(arr[1]) |-> [z \in 1..Len(arr[1][1]) |-> arr[x][y][z][t]]]]]
Transpose(arr) ==
    [t \in 1..Len(arr[1][1][1]) |-> [z \in 1..Len(arr[1][1]) |->
        [y \in 1..Len(arr[1]) |-> [x \in 1..Len(arr) |-> arr[x][y][z][t]]]]]

\* volume[mask] for a 3-D volume and a boolean mask of its shape: the values
\* at the True positions of the mask, in numpy's order.
MaskedVoxels(mask) == SelectSeq(VoxelOrder, LAMBDA p : mask[p[1]][p[2]][p[3]])
BoolIndex(volume, mask) ==
    LET sel == MaskedVoxels(mask)
    IN  [i \in 1..Len(sel) |-> volume[sel[i][1]][sel[i][2]][sel[i][3]]]

\* scipy.stats.zscore(data, axis=0): every column in standard units.
ZScore(data) ==
    [t \in 1..Len(data) |-> [v \in 1..Len(data[1]) |->
        Scale([u \in 1..Len(data) |-> data[u][v]])[t]]]

\* pycortex, the volume of masked data: output[mask] = row, the other voxels
\* hold the fill value.
Unmask_Reversed(mask, row, fill) ==
    LET sel == MaskedVoxels(mask)
    IN  [z \in VolZ |-> [y \in VolY |-> [x \in VolX |->
            IF mask[z][y][x]
            THEN row[Len(sel) + 1 - (CHOOSE i \in 1..Len(sel) : sel[i] = <<z, y, x>>)]
            ELSE fill]]]
Unmask(mask, row, fill) ==
    LET sel == MaskedVoxels(mask)
    IN  [z \in VolZ |-> [y \in VolY |-> [x \in VolX |->
            IF mask[z][y][x]
            THEN row[CHOOSE i \in 1..Len(sel) : sel[i] = <<z, y, x>>]
            ELSE fill]]]

\* What pycortex puts outside the mask: zero or nan.
NaN == [q |-> <<0, 0>>, r |-> 0]
Fills == {SOfR(R(0)), NaN}

\* nii = nibabel.load(fname); the mask file holds a mask.     (lines 126-130)
InitVol ==
    /\ \E offset \in ImageOffsets, m \in Masks :
          vol = [pc |-> "get_fdata", nii |-> Image(offset), mask_file |-> m,
                 voldata |-> Unbound, mask |-> Unbound, data |-> Unbound,
                 first_volume |-> Unbound, first_volume_masked |-> Unbound,
                 vol |-> Unbound, data_movie |-> Unbound]
    /\ kernel = Off /\ ref = Off /\ eog = Off /\ erp = Off /\ bl = Off /\ se = Off
    /\ reg = Off /\ cc = Off /\ evt = Off

\* voldata = nii.get_fdata().T                                     (line 128)
LoadVolumes ==
    /\ vol.pc = "get_fdata"
    /\ vol' = [vol EXCEPT !.pc = "load_mask", !.voldata = Transpose(vol.nii)]
    /\ UNCHANGED <<kernel, ref, eog, erp, bl, se, reg, cc, evt>>

\* mask = np.load(mask_fname)['mask']                              (line 131)
LoadMask ==
    /\ vol.pc = "load_mask"
    /\ vol' = [vol EXCEPT !.pc = "mask_data", !.mask = vol.mask_file]
    /\ UNCHANGED <<kernel, ref, eog, erp, bl, se, reg, cc, evt>>

\* data = voldata[:, mask]                                         (line 132)
MaskData ==
    /\ vol.pc = "mask_data"
    /\ vol' = [vol EXCEPT !.pc = "zscore",
                          !.data = [t \in 1..Len(vol.voldata) |->
                                       BoolIndex(vol.voldata[t], vol.mask)]]
    /\ UNCHANGED <<kernel, ref, eog, erp, bl, se, reg, cc, evt>>

\* data = zscore(data, axis=0)                                     (line 133)
ZScoreData ==
    /\ vol.pc = "zscore"
    /\ vol' = [vol EXCEPT !.pc = "first_volume", !.data = ZScore(vol.data)]
    /\ UNCHANGED <<kernel, ref, eog, erp, bl, se, reg, cc, evt>>

\* first_volume = voldata[0]                                       (line 157)
FirstVolume ==
    /\ vol.pc = "first_volume"
    /\ vol' = [vol EXCEPT !.pc = "get_mask", !.first_volume = vol.voldata[1]]
    /\ UNCHANGED <<kernel, ref, eog, erp, bl, se, reg, cc, evt>>

\* mask = cortex.db.get_mask(subject, transform, type='cortical'): "this is
\* where the mask we used above came from";
\* first_volume_masked = voldata[0, mask]                     (lines 311-312)
GetMask ==
    /\ vol.pc = "get_mask"
    /\ vol' = [vol EXCEPT !.pc = "volume", !.mask = vol.mask_file,
                          !.first_volume_masked =
                              BoolIndex(vol.voldata[1], vol.mask_file)]
    /\ UNCHANGED <<kernel, ref, eog, erp, bl, se, reg, cc, evt>>

\* vol = cortex.Volume(data[0], subject, transform, mask=mask, **kwargs)
\*                                                                 (line 338)
MakeVolume ==
    /\ vol.pc = "volume"
    /\ \E fill \in Fills :
          vol' = [vol EXCEPT !.pc = "movie",
                             !.vol = [data |-> vol.data[1], mask |-> vol.mask,
                                      volume |-> Unmask(vol.mask, vol.data[1], fill)]]
    /\ UNCHANGED <<kernel, ref, eog, erp, bl, se, reg, cc, evt>>

\* data_movie = cortex.Volume(data, subject, transform, mask=mask, ...)
\*                                                                 (line 385)
MakeMovie ==
    /\ vol.pc = "movie"
    /\ \E fill \in Fills :
          vol' = [vol EXCEPT !.pc = "done",
                             !.data_movie =
                                 [data |-> vol.data, mask |-> vol.mask,
                                  volume |-> [t \in 1..Len(vol.data) |->
                                                 Unmask(vol.mask, vol.data[t], fill)]]]
    /\ UNCHANGED <<kernel, ref, eog, erp, bl, se, reg, cc, evt>>

NextVol ==
    \/ LoadVolumes
    \/ LoadMask
    \/ MaskData
    \/ ZScoreData
    \/ FirstVolume
    \/ GetMask
    \/ MakeVolume
    \/ MakeMovie

SpecVol == InitVol /\ [][NextVol]_vars

\* The timecourse of a voxel as the image file stores it.
Timecourse(nii, z, y, x) == [t \in 1..VolTimes |-> nii[x][y][z][t]]

\* p comes before q, or is q, when the voxels are read z first, then y, then x.
VoxelLeq(p, q) ==
    \/ p[1] < q[1]
    \/ p[1] = q[1] /\ p[2] < q[2]
    \/ p[1] = q[1] /\ p[2] = q[2] /\ p[3] <= q[3]

InMask(mask) == {p \in VolZ \X VolY \X VolX : mask[p[1]][p[2]][p[3]]}

\* The column of a voxel of the mask: its rank among the voxels of the mask.
ColumnOf(mask, p) == Cardinality({q \in InMask(mask) : VoxelLeq(q, p)})

\* C14: voldata has the axes (time, Z, Y, X) and voldata[t, z, y, x] is the
\* image's value at [x, y, z, t]; first_volume is the (Z, Y, X) volume of
\* the first timepoint; data has one row per timepoint.
C14_VoldataAxes ==
    /\ vol.pc # "get_fdata" =>
          /\ Len(vol.voldata) = VolTimes
          /\ \A t \in 1..VolTimes :
                /\ Len(vol.voldata[t]) = Cardinality(VolZ)
                /\ \A z \in VolZ :
                      /\ Len(vol.voldata[t][z]) = Cardinality(VolY)
                      /\ \A y \in VolY :
                            /\ Len(vol.voldata[t][z][y]) = Cardinality(VolX)
                            /\ \A x \in VolX :
                                  vol.voldata[t][z][y][x] = vol.nii[x][y][z][t]
    /\ vol.pc \in {"get_mask", "volume", "movie", "done"} =>
          vol.first_volume =
              [z \in VolZ |-> [y \in VolY |-> [x \in VolX |-> vol.nii[x][y][z][1]]]]
    /\ vol.pc \in {"zscore", "first_volume", "get_mask", "volume", "movie", "done"} =>
          /\ Len(vol.data) = VolTimes
          /\ \A t \in 1..VolTimes :
                Len(vol.data[t]) = Cardinality(InMask(vol.mask))

\* The first volume has been taken, and it is not the same read along x as
\* along y.
C14_Witness ==
    /\ vol.pc = "get_mask"
    /\ vol.first_volume[1][1][2] # vol.first_volume[1][2][1]
    /\ vol.voldata[2] # vol.voldata[1]
    /\ Len(vol.data[1]) = 2

\* C13: data has one row per volume and one column per voxel of the mask,
\* the column of a voxel being the same in every row (its rank in the
\* mask); the Volume made from a row holds, at every voxel of the mask, the
\* value of that voxel's column, so masking the Volume gives the row back.
C13_MaskRoundTrip ==
    /\ vol.pc = "zscore" =>
          /\ Len(vol.data) = VolTimes
          /\ \A t \in 1..VolTimes :
                /\ Len(vol.data[t]) = Cardinality(InMask(vol.mask))
                /\ \A p \in InMask(vol.mask) :
                      vol.data[t][ColumnOf(vol.mask, p)] = vol.nii[p[3]][p[2]][p[1]][t]
    /\ vol.pc \in {"first_volume", "get_mask", "volume", "movie", "done"} =>
          \A t \in 1..VolTimes : \A p \in InMask(vol.mask) :
              vol.data[t][ColumnOf(vol.mask, p)] =
                  Scale(Timecourse(vol.nii, p[1], p[2], p[3]))[t]
    /\ vol.pc \in {"movie", "done"} =>
          /\ \A p \in InMask(vol.mask) :
                vol.vol.volume[p[1]][p[2]][p[3]] = vol.data[1][ColumnOf(vol.mask, p)]
          /\ BoolIndex(vol.vol.volume, vol.mask) = vol.data[1]
    /\ vol.pc = "done" =>
          \A t \in 1..VolTimes :
              /\ \A p \in InMask(vol.mask) :
                    vol.data_movie.volume[t][p[1]][p[2]][p[3]] =
                        vol.data[t][ColumnOf(vol.mask, p)]
              /\ BoolIndex(vol.data_movie.volume[t], vol.mask) = vol.data[t]

\* A mask of several voxels that leaves others out, whose voxels hold
\* different values in the Volume.
C13_Witness ==
    /\ vol.pc = "done"
    /\ Cardinality(InMask(vol.mask)) = 3
    /\ \A p, q \in InMask(vol.mask) :
          p # q => vol.vol.volume[p[1]][p[2]][p[3]] # vol.vol.volume[q[1]][q[2]][q[3]]
    /\ vol.mask[1][1][1] /\ ~vol.mask[1][1][2] /\ vol.mask[2][1][1]

-----------------------------------------------------------------------------
(* week4, the events cells: the events table read from the csv file is     *)
(* turned into the array mne.Epochs takes.                                  *)

EvtRows == 2        \* rows of the events table

EvtLabels == {"index", "previous_value", "event_type"}
\* The values a row can hold under each label.
EvtValues == [index |-> {5, 7}, previous_value |-> {0, 1}, event_type |-> {3, 32}]
EvtRecords ==
    [index : EvtValues.index, previous_value : EvtValues.previous_value,
     event_type : EvtValues.event_type]

\* The orders the file can have its three columns in.
LabelOrders ==
    {o \in [1..3 -> EvtLabels] : \A i, j \in 1..3 : i # j => o[i] # o[j]}

\* A datascience Table: its labels in order, and one column per label.
Table(labels, rows) ==
    [labels |-> labels,
     columns |-> [l \in {labels[k] : k \in 1..Len(labels)} |->
                     [i \in 1..Len(rows) |-> rows[i][l]]]]

NumRows(table) == Len(table.columns[table.labels[1]])

\* Table.select(labels): a table of the named columns, in the order named.
TableSelect_KeepOrder(table, labels) == table
TableSelect(table, labels) ==
    [labels |-> labels,
     columns |-> [l \in {labels[k] : k \in 1..Len(labels)} |-> table.columns[l]]]

\* Table.values: the columns side by side, one row of the array per row of
\* the table.
TableValues(table) ==
    [i \in 1..NumRows(table) |-> [k \in 1..Len(table.labels) |->
        table.columns[table.labels[k]][i]]]

\* arr[:n]
FirstRows(arr, n) == SubSeq(arr, 1, IF Len(arr) < n THEN Len(arr) ELSE n)

\* ev_df = ds.Table.read_table(path_events)                         (line 54)
InitEvt ==
    /\ \E o \in LabelOrders, n \in 0..EvtRows :
          \E rows \in [1..n -> EvtRecords] :
              evt = [pc |-> "select", rows |-> rows, ev_df |-> Table(o, rows),
                     events |-> Unbound, printed |-> Unbound]
    /\ kernel = Off /\ ref = Off /\ eog = Off /\ erp = Off /\ bl = Off /\ se = Off
    /\ reg = Off /\ cc = Off /\ vol = Off

\* events = ev_df.select(['index', 'previous_value', 'event_type']).values
\*                                                                 (line 107)
SelectEvents ==
    /\ evt.pc = "select"
    /\ evt' = [evt EXCEPT !.pc = "print",
                          !.events = TableValues(TableSelect(evt.ev_df,
                              <<"index", "previous_value", "event_type">>))]
    /\ UNCHANGED <<kernel, ref, eog, erp, bl, se, reg, cc, vol>>

\* print(ev_df.values[:5]); print(events[:5])                (lines 118-121)
PrintEvents ==
    /\ evt.pc = "print"
    /\ evt' = [evt EXCEPT !.pc = "done",
                          !.printed = <<FirstRows(TableValues(evt.ev_df), 5),
                                        FirstRows(evt.events, 5)>>]
    /\ UNCHANGED <<kernel, ref, eog, erp, bl, se, reg, cc, vol>>

NextEvt ==
    \/ SelectEvents
    \/ PrintEvents

SpecEvt == InitEvt /\ [][NextEvt]_vars

\* C15: events has one row per row of ev_df, in the same order, of three
\* columns: the row's index, previous value and event type; every row of
\* events is the same row of ev_df.values with its columns rearranged, by
\* the same rearrangement for all rows.
C15_EventsLayout ==
    evt.pc \in {"print", "done"} =>
        /\ Len(evt.events) = Len(evt.rows)
        /\ Len(evt.events) = Len(TableValues(evt.ev_df))
        /\ \A i \in 1..Len(evt.events) :
              /\ Len(evt.events[i]) = 3
              /\ evt.events[i] = <<evt.rows[i].index, evt.rows[i].previous_value,
                                   evt.rows[i].event_type>>
        /\ \E perm \in LabelOrders :
              \A i \in 1..Len(evt.events) : \A k \in 1..3 :
                  /\ evt.ev_df.labels[k] = perm[k]
                  /\ \E j \in 1..3 :
                        /\ <<"index", "previous_value", "event_type">>[j] = perm[k]
                        /\ evt.events[i][j] = TableValues(evt.ev_df)[i][k]

\* A table of two different rows whose file has the event type first.
C15_Witness ==
    /\ evt.pc = "done"
    /\ Len(evt.events) = 2
    /\ evt.events[1] # evt.events[2]
    /\ evt.ev_df.labels[1] = "event_type"
    /\ evt.printed[1] # evt.printed[2]

=============================================================================
